---------------------------- MODULE Spec2Model ----------------------------
(***************************************************************************)
(* A model of ava-dataset-utils: the timestamp clustering of              *)
(* ava/ava_sampler.py, its task deduplication, the clip-extraction pool   *)
(* (extract_clip), the validity prober (is_valid_video_ffprobe), the      *)
(* trimming pool of ava/ava_trimmer.py (trim_video) and the sliding-      *)
(* window generator of the design document.                               *)
(*                                                                         *)
(* Times are fixed-point numbers: a float of the program is the integer   *)
(* count of 1/Q seconds it holds.  Centers, which the program truncates   *)
(* with int(), are whole seconds.                                          *)
(***************************************************************************)
EXTENDS Integers, Sequences, FiniteSets, TLC

VARIABLES
    \* the CONFIGURATION block / the keyword arguments of the clustering call
    config,       \* window, min_duration, max_duration, buffer
    \* one call of cluster_timestamps_with_duration, and a second call on the
    \* same timestamps in another order
    cpc,          \* "off", "input", "returned", "again"
    timestamps,   \* the list passed to the first call
    clusters,     \* the list `clusters` the first call built
    branches,     \* per cluster, the branch that chose its center
    results,      \* what the first call returned
    reordered,    \* the list passed to the second call
    results2,     \* what the second call returned
    \* the MAIN section of ava_sampler.py up to the task list
    tpc,               \* "off", "read", "cluster", "done"
    rows,              \* the rows of ANNOTATION_CSV: <<video_id, timestamp>>
    video_order,       \* the keys of video_timestamps in insertion order
    video_timestamps,  \* video_id -> list of timestamps
    vi,                \* position of the outer dedup loop in video_order
    emitted,           \* every key the loop has looked at, in order
    seen,              \* the set `seen`
    tasks,             \* the list `tasks`
    \* one call of is_valid_video_ffprobe
    qpc,          \* "off", "input", "returned"
    proc,         \* what subprocess.run meets: started, returncode, stdout
    verdict,      \* "none", or how the call ended: "valid", "invalid", "raised"
    \* the extraction pool: executor.map(extract_clip, tasks)
    run,             \* 0: no pool; 1, 2: first and second run of the script
    tools,           \* "ok", "no_ffprobe", "hung_ffprobe", "readonly"
    video_dir,       \* file name in VIDEO_DIR -> what the source file is like
    out_dir,         \* output file name -> "absent", "partial", "good", "bad"
    pc,              \* task index -> where its extract_clip call is
    frames_written,  \* task index -> 0, or 1 for any positive count
    probed,          \* task index -> what the post-extraction probe did
    outcome,         \* task index -> the outcome returned, "none" before
    first_outcomes,  \* the outcomes of run 1, kept for run 2
    video_path,      \* task index -> what find_video_file returned
    executions,      \* task index -> how often extract_clip was entered
    completed,       \* task indices in the order their calls returned
    start_dir,       \* OUTPUT_DIR as it was when the run started
    \* the loop over executor.map and the last line of the script
    yielded,         \* how many results the loop has taken
    printed,         \* the lines printed: <<task index, outcome>>
    ended,           \* whether the end-of-run line was printed
    \* the sliding-window generator
    wpc,             \* "off", "loop", "done"
    asset_duration,  \* D, the duration of the asset
    window_size,     \* W, whole seconds
    stride,          \* S, whole seconds
    win_start,       \* the loop variable `start`, whole seconds
    windows,         \* the (center, duration) pairs emitted so far
    \* ava_trimmer.py: executor.map(trim_video, video_files)
    tstate,          \* "off", "running", "ended", "aborted"
    trim_tools,      \* "ok", "no_ffprobe", "hung_ffprobe" or "no_ffmpeg"
    raw_dir,         \* <<stem, extension>> in VIDEO_DIR -> what the file is like
    video_files,     \* the list `video_files`
    trimmed_dir,     \* file name in TRIMMED_VIDEO_DIR -> its content
    fpc,             \* file index -> where its trim_video call is
    trim_result,     \* file index -> what the call returned, "none" before
    ffmpeg_runs,     \* file index -> how often the ffmpeg command was run
    tyielded,        \* how many results the loop has taken
    tprinted,        \* the lines printed: <<file index, result>>
    \* one call of download_file (ava_downloader.py)
    dpc,             \* "off", "trying", "done"
    attempt,         \* the loop variable `attempt`
    disk_size,       \* size of the file at output_path, Absent when none
    total_size,      \* the content length of the last response, Absent before
    raised,          \* how many attempts ended in the except clause
    dl_result        \* "none", or what the call returned

clusterVars == <<cpc, timestamps, clusters, branches, results, reordered, results2>>
mainVars == <<tpc, rows, video_order, video_timestamps, vi, emitted, seen>>
probeVars == <<qpc, proc, verdict>>
aggVars == <<yielded, printed, ended>>
poolVars ==
    <<run, tools, video_dir, out_dir, pc, frames_written, probed, outcome,
      first_outcomes, video_path, executions, completed, start_dir, aggVars>>
windowVars ==
    <<wpc, asset_duration, window_size, stride, win_start, windows>>
trimVars ==
    <<tstate, trim_tools, raw_dir, video_files, trimmed_dir, fpc, trim_result,
      ffmpeg_runs, tyielded, tprinted>>
downloadVars == <<dpc, attempt, disk_size, total_size, raised, dl_result>>
vars ==
    <<config, clusterVars, mainVars, tasks, probeVars, poolVars, windowVars,
      trimVars, downloadVars>>

(* ----------------------------- bounds ---------------------------------- *)
\* Resolution of the modelled floats: units per second.
Q == 4
\* Longest timestamp list handed to cluster_timestamps_with_duration.
MaxLen == 3
\* Most rows of the annotation file.
MaxRows == 3
\* Most characters ffprobe writes to its standard output.
MaxOut == 3
\* Longest asset, in whole seconds, and largest window size and stride the
\* sliding-window generator is run on, the example apart.
MaxSeconds == 5
MaxWindow == 3
\* Largest file size and content length of a download, in bytes.
MaxSize == 4

Sec(n) == n * Q

\* The timestamps a call may receive (in units): whole seconds 1, 2, 10, 12,
\* 13, 20 and the fractional 10 + 1/Q, 10 + 3/Q.
TimeDomain ==
    {Sec(1), Sec(2), Sec(10), Sec(10) + 1, Sec(10) + 3, Sec(12), Sec(13),
     Sec(20)}

\* The video ids and timestamps of the annotation rows.
VideoIds == {"v1", "v2"}
RowTimes == {Sec(10), Sec(10) + 1, Sec(10) + 3, Sec(13)}

\* The sliding-window example: an asset of 900 s, window and stride 15.
ExampleSeconds == 900
ExampleWindow == 15

\* ava_downloader.py: attempts per file.
max_retries == 3

\* parallel processes
NUM_WORKERS == 8

(* --------------------------- configuration ----------------------------- *)
\* The CONFIGURATION block of ava_sampler.py as shipped.
CLUSTER_WINDOW == 5
MIN_DURATION == 7
BUFFER == 1
MAX_DURATION == 15

ShippedConfig ==
    [window |-> Sec(CLUSTER_WINDOW), min_duration |-> Sec(MIN_DURATION),
     max_duration |-> Sec(MAX_DURATION), buffer |-> Sec(BUFFER)]

\* The keyword defaults of cluster_timestamps_with_duration.
DefaultConfig ==
    [window |-> Sec(5), min_duration |-> Sec(3), max_duration |-> Sec(10),
     buffer |-> Sec(1)]

\* Other values of the four parameters: a tight maximum, a sub-second
\* window, and a minimum above the maximum.
TightConfig ==
    [window |-> Sec(5), min_duration |-> Sec(2), max_duration |-> Sec(3),
     buffer |-> Sec(1)]

FineConfig ==
    [window |-> Q \div 2, min_duration |-> Sec(1), max_duration |-> Sec(15),
     buffer |-> Sec(1)]

InvertedConfig ==
    [window |-> Sec(5), min_duration |-> Sec(7), max_duration |-> Sec(3),
     buffer |-> Sec(1)]

Configs == {ShippedConfig, DefaultConfig, TightConfig, FineConfig, InvertedConfig}

(* ------------------------- python primitives --------------------------- *)
Range(s) == {s[i] : i \in DOMAIN s}

SetMin(S) == CHOOSE x \in S : \A y \in S : x <= y
SetMax(S) == CHOOSE x \in S : \A y \in S : x >= y

\* max(a, b) and min(a, b) of two numbers.
PyMax(a, b) == IF b > a THEN b ELSE a
PyMin(a, b) == IF b < a THEN b ELSE a

\* int(n / d): truncation toward zero.
Trunc(n, d) == IF n >= 0 THEN n \div d ELSE -((-n) \div d)

\* sorted(S) of a set of numbers.
RECURSIVE SortedSeq(_)
SortedSeq(S) ==
    IF S = {} THEN <<>>
    ELSE LET m == SetMin(S) IN <<m>> \o SortedSeq(S \ {m})

\* sorted(data) of a list: insertion of each element in turn.
RECURSIVE SortList(_)
SortList(s) ==
    IF s = <<>> THEN <<>>
    ELSE LET rest == SortList(Tail(s))
             lo == SelectSeq(rest, LAMBDA x : x < Head(s))
             hi == SelectSeq(rest, LAMBDA x : x >= Head(s))
         IN lo \o <<Head(s)>> \o hi

\* statistics.median(data), as a numerator over the denominator 2.
MedianTimes2(data) ==
    LET d == SortList(data)
        n == Len(d)
    IN IF n % 2 = 1 THEN 2 * d[(n + 1) \div 2]
       ELSE d[n \div 2] + d[n \div 2 + 1]

\* Counter(cluster).most_common(1)[0]: the value with the highest count, the
\* first one inserted among equals.
Count(s, x) == Cardinality({i \in DOMAIN s : s[i] = x})

MostCommon(cluster) ==
    LET best == SetMax({Count(cluster, cluster[i]) : i \in DOMAIN cluster})
        first == SetMin({i \in DOMAIN cluster : Count(cluster, cluster[i]) = best})
    IN <<cluster[first], best>>

(* --------------------- cluster_timestamps_with_duration ---------------- *)
\* SortedDistinct without set(): the sorted list, repeats kept.
SortedWithRepeats(ts) == SortList(ts)

\* SortedDistinct without the sort: the distinct values in first-seen order.
RECURSIVE DistinctUnsorted(_)
DistinctUnsorted(ts) ==
    IF ts = <<>> THEN <<>>
    ELSE LET init == DistinctUnsorted(SubSeq(ts, 1, Len(ts) - 1))
             last == ts[Len(ts)]
         IN IF last \in Range(init) THEN init ELSE Append(init, last)

\* timestamps = sorted(set(timestamps))
SortedDistinct(ts) == SortedSeq(Range(ts))

\* GroupFrom with `<= window` for the test `< window`.
RECURSIVE GroupFromInclusive(_, _, _, _)
GroupFromInclusive(ts, i, acc, window) ==
    IF i > Len(ts) THEN acc
    ELSE LET t == ts[i]
             next ==
                 IF acc[2] = <<>> THEN <<acc[1], <<t>>>>
                 ELSE IF t - acc[2][Len(acc[2])] <= window
                      THEN <<acc[1], Append(acc[2], t)>>
                      ELSE <<Append(acc[1], acc[2]), <<t>>>>
         IN GroupFromInclusive(ts, i + 1, next, window)

\* The grouping loop: `acc` is <<clusters, current>> after the first i - 1
\* timestamps.
RECURSIVE GroupFrom(_, _, _, _)
GroupFrom(ts, i, acc, window) ==
    IF i > Len(ts) THEN acc
    ELSE LET t == ts[i]
             built == acc[1]
             current == acc[2]
             next ==
                 IF current = <<>> THEN <<built, <<t>>>>
                 ELSE IF t - current[Len(current)] < window
                      THEN <<built, Append(current, t)>>
                      ELSE <<Append(built, current), <<t>>>>
         IN GroupFrom(ts, i + 1, next, window)

Clusters(ts, window) ==
    LET acc == GroupFrom(SortedDistinct(ts), 1, <<<<>>, <<>>>>, window)
    IN IF acc[2] # <<>> THEN Append(acc[1], acc[2]) ELSE acc[1]

\* ClusterDuration without its second line, min(duration, max_duration).
ClusterDurationNoMax(cluster, c) ==
    PyMax(c.min_duration, SetMax(Range(cluster)) - SetMin(Range(cluster)) + c.buffer)

\* duration = min(max(min_duration, end - start + buffer), max_duration)
ClusterDuration(cluster, c) ==
    LET start == SetMin(Range(cluster))
        end == SetMax(Range(cluster))
    IN PyMin(PyMax(c.min_duration, end - start + c.buffer), c.max_duration)

\* Whether the mode branch (freq > 1) is the one taken for the cluster.
ModeBranch(cluster) == MostCommon(cluster)[2] > 1

\* ClusterCenter taking the middle of the span instead of the median.
ClusterCenterMidpoint(cluster) ==
    Trunc(SetMin(Range(cluster)) + SetMax(Range(cluster)), 2 * Q)

\* center_ts: int(mode_ts) when a value repeats, else int(median(cluster)).
ClusterCenter(cluster) ==
    IF ModeBranch(cluster)
    THEN Trunc(MostCommon(cluster)[1], Q)
    ELSE Trunc(MedianTimes2(cluster), 2 * Q)

\* Which arm of the if at line 123 each cluster takes.
Branches(cl) ==
    [k \in DOMAIN cl |-> IF ModeBranch(cl[k]) THEN "mode" ELSE "median"]

ClusterResults(cl, c) ==
    [k \in DOMAIN cl |->
        <<ClusterCenter(cl[k]), ClusterDuration(cl[k], c)>>]

cluster_timestamps_with_duration(ts, c) ==
    ClusterResults(Clusters(ts, c.window), c)

(* ------------------ specification: the clustering call ----------------- *)
SeqsUpTo(S, n) == UNION {[1..k -> S] : k \in 0..n}

ClusterOff ==
    /\ cpc = "off"
    /\ timestamps = <<>>
    /\ clusters = <<>>
    /\ branches = <<>>
    /\ results = <<>>
    /\ reordered = <<>>
    /\ results2 = <<>>

ClusterInit ==
    /\ cpc = "input"
    /\ config \in Configs
    /\ timestamps \in SeqsUpTo(TimeDomain, MaxLen)
    /\ clusters = <<>>
    /\ branches = <<>>
    /\ results = <<>>
    /\ reordered = <<>>
    /\ results2 = <<>>

CallCluster ==
    /\ cpc = "input"
    /\ clusters' = Clusters(timestamps, config.window)
    /\ branches' = Branches(clusters')
    /\ results' = cluster_timestamps_with_duration(timestamps, config)
    /\ cpc' = "returned"
    /\ UNCHANGED <<config, timestamps, reordered, results2, mainVars, tasks,
                   probeVars, poolVars, windowVars, trimVars,
                   downloadVars>>

CallReordered ==
    /\ cpc = "returned"
    /\ \E p \in Permutations(DOMAIN timestamps) :
          /\ reordered' = [i \in DOMAIN timestamps |-> timestamps[p[i]]]
          /\ results2' = cluster_timestamps_with_duration(reordered', config)
    /\ cpc' = "again"
    /\ UNCHANGED <<config, timestamps, clusters, branches, results, mainVars, tasks,
                   probeVars, poolVars, windowVars, trimVars,
                   downloadVars>>

ClusterNext == CallCluster \/ CallReordered

(* ------------- the MAIN section: annotations to task list -------------- *)
\* The keys of video_timestamps after reading `rs`: each video id once, in
\* the order of its first row (dict insertion order).
RECURSIVE FirstSeenIds(_, _)
FirstSeenIds(rs, acc) ==
    IF rs = <<>> THEN acc
    ELSE FirstSeenIds(Tail(rs),
                      IF Head(rs)[1] \in Range(acc) THEN acc
                      ELSE Append(acc, Head(rs)[1]))

\* video_timestamps[v] after reading `rs`: the timestamps of v's rows in
\* file order.
RECURSIVE TimestampsOf(_, _)
TimestampsOf(v, rs) ==
    IF rs = <<>> THEN <<>>
    ELSE IF Head(rs)[1] = v
         THEN <<Head(rs)[2]>> \o TimestampsOf(v, Tail(rs))
         ELSE TimestampsOf(v, Tail(rs))

\* for center_ts, duration in clustered: key = (video_id, center_ts, duration)
KeysOf(v, clustered) ==
    [k \in DOMAIN clustered |-> <<v, clustered[k][1], clustered[k][2]>>]

\* DedupStep without the membership test.
DedupStepNoSeen(st, key) == <<Append(st[1], key), st[2] \cup {key}>>

\* if key not in seen: seen.add(key); tasks.append(key)
\* `st` is <<tasks, seen>>.
DedupStep(st, key) ==
    IF key \notin st[2] THEN <<Append(st[1], key), st[2] \cup {key}>> ELSE st

RECURSIVE DedupLoop(_, _)
DedupLoop(st, keys) ==
    IF keys = <<>> THEN st
    ELSE DedupLoop(DedupStep(st, Head(keys)), Tail(keys))

\* output_filename = f"{video_id}_{int(timestamp)}s_{int(duration)}s.mp4"
OutputFilename(task) ==
    task[1] \o "_" \o ToString(task[2]) \o "s_"
            \o ToString(Trunc(task[3], Q)) \o "s.mp4"

MainOff ==
    /\ tpc = "off"
    /\ rows = <<>>
    /\ video_order = <<>>
    /\ video_timestamps = [v \in VideoIds |-> <<>>]
    /\ vi = 0
    /\ emitted = <<>>
    /\ seen = {}

MainInit ==
    /\ tpc = "read"
    /\ config \in Configs
    /\ rows \in SeqsUpTo(VideoIds \X RowTimes, MaxRows)
    /\ video_order = <<>>
    /\ video_timestamps = [v \in VideoIds |-> <<>>]
    /\ vi = 0
    /\ emitted = <<>>
    /\ seen = {}
    /\ tasks = <<>>

\* The csv loop: video_timestamps[video_id].append(timestamp) for each row.
ReadAnnotations ==
    /\ tpc = "read"
    /\ video_order' = FirstSeenIds(rows, <<>>)
    /\ video_timestamps' = [v \in VideoIds |-> TimestampsOf(v, rows)]
    /\ vi' = 1
    /\ tpc' = "cluster"
    /\ UNCHANGED <<config, rows, emitted, seen, tasks, clusterVars, probeVars,
                   poolVars, windowVars, trimVars,
                   downloadVars>>

\* One pass of `for video_id, timestamps in video_timestamps.items()`.
ClusterVideo ==
    /\ tpc = "cluster"
    /\ vi <= Len(video_order)
    /\ LET v == video_order[vi]
           clustered == cluster_timestamps_with_duration(video_timestamps[v], config)
           keys == KeysOf(v, clustered)
           st == DedupLoop(<<tasks, seen>>, keys)
       IN /\ tasks' = st[1]
          /\ seen' = st[2]
          /\ emitted' = emitted \o keys
    /\ vi' = vi + 1
    /\ UNCHANGED <<config, tpc, rows, video_order, video_timestamps,
                   clusterVars, probeVars, poolVars, windowVars, trimVars,
                   downloadVars>>

\* The loop is over: the task list is complete.
FinishTasks ==
    /\ tpc = "cluster"
    /\ vi > Len(video_order)
    /\ tpc' = "done"
    /\ UNCHANGED <<config, rows, video_order, video_timestamps, vi, emitted,
                   seen, tasks, clusterVars, probeVars, poolVars, windowVars,
                   trimVars, downloadVars>>

MainNext == ReadAnnotations \/ ClusterVideo \/ FinishTasks

(* ----------------------- is_valid_video_ffprobe ------------------------ *)
\* The characters of ffprobe's output: digits, a sign, white space and a
\* letter (as in "N/A").
Digits == {"0", "1"}
Whitespace == {" ", "\n"}
OutChars == Digits \cup Whitespace \cup {"-", "N"}

DigitValue(ch) == IF ch = "1" THEN 1 ELSE 0

\* str.strip(): leading and trailing white space removed.
RECURSIVE LStrip(_)
LStrip(s) ==
    IF s # <<>> /\ Head(s) \in Whitespace THEN LStrip(Tail(s)) ELSE s

RECURSIVE RStrip(_)
RStrip(s) ==
    IF s # <<>> /\ s[Len(s)] \in Whitespace
    THEN RStrip(SubSeq(s, 1, Len(s) - 1))
    ELSE s

Strip(s) == RStrip(LStrip(s))

\* int(text): an optional sign and then one or more digits, else ValueError.
Unsigned(s) == IF s # <<>> /\ Head(s) = "-" THEN Tail(s) ELSE s

IntParses(s) ==
    LET d == Unsigned(Strip(s))
    IN d # <<>> /\ \A i \in DOMAIN d : d[i] \in Digits

RECURSIVE DigitsValue(_)
DigitsValue(d) ==
    IF d = <<>> THEN 0
    ELSE 10 * DigitsValue(SubSeq(d, 1, Len(d) - 1)) + DigitValue(d[Len(d)])

IntOf(s) ==
    LET t == Strip(s)
    IN IF t # <<>> /\ Head(t) = "-" THEN -DigitsValue(Tail(t)) ELSE DigitsValue(t)

\* subprocess.run(cmd, ...) is called before the try: when the process
\* cannot be started its exception leaves the function.  It is called
\* without timeout=, so it returns when the process exits and not before:
\* "hung" is the call that has not returned.  The return code is not looked
\* at.  Inside the try, int() of the output decides.
is_valid_video_ffprobe(p) ==
    IF ~p.started THEN "raised"
    ELSE IF ~p.exits THEN "hung"
    ELSE IF IntParses(p.stdout) /\ IntOf(p.stdout) > 0 THEN "valid"
    ELSE "invalid"

ProbeOff ==
    /\ qpc = "off"
    /\ proc = [started |-> TRUE, exits |-> TRUE, returncode |-> 0, stdout |-> <<>>]
    /\ verdict = "none"

ProbeInit ==
    /\ qpc = "input"
    /\ proc \in [started : BOOLEAN, exits : {TRUE}, returncode : {0, 1},
                  stdout : SeqsUpTo(OutChars, MaxOut)]
               \cup {[started |-> TRUE, exits |-> FALSE, returncode |-> 0,
                      stdout |-> <<>>]}
    /\ verdict = "none"

CallProbe ==
    /\ qpc = "input"
    /\ is_valid_video_ffprobe(proc) # "hung"
    /\ verdict' = is_valid_video_ffprobe(proc)
    /\ qpc' = "returned"
    /\ UNCHANGED <<config, clusterVars, mainVars, tasks, proc, poolVars, windowVars,
                   trimVars, downloadVars>>

ProbeNext == CallProbe

(* ------------------------- the extraction pool ------------------------- *)
\* The MAIN section as one function of the annotation rows.
RECURSIVE TasksFrom(_, _, _, _)
TasksFrom(order, vts, st, c) ==
    IF order = <<>> THEN st[1]
    ELSE LET v == Head(order)
             keys == KeysOf(v, cluster_timestamps_with_duration(vts[v], c))
         IN TasksFrom(Tail(order), vts, DedupLoop(st, keys), c)

BuildTasks(rs, c) ==
    TasksFrom(FirstSeenIds(rs, <<>>), [v \in VideoIds |-> TimestampsOf(v, rs)],
              <<<<>>, {}>>, c)

\* The annotation files and configurations the pool is run after.
PoolInputs ==
    {[config |-> ShippedConfig, rows |-> <<<<"v1", Sec(10)>>, <<"v1", Sec(13)>>>>],
     [config |-> ShippedConfig, rows |-> <<<<"v1", Sec(10)>>, <<"v2", Sec(13)>>>>],
     [config |-> FineConfig,
      rows |-> <<<<"v1", Sec(10)>>, <<"v1", Sec(10) + 1>>, <<"v1", Sec(10) + 3>>>>]}

\* What a source file can be like:
\*   "unreadable"   av.open(video_path) raises
\*   "undecodable"  decoding raises once the output container is open
\*   "empty"        no frame of the window is written (frames_written = 0)
\*   "odd"          frames are written but the written file fails the probe
\*   "playable"     frames are written and the written file passes the probe
SourceKinds == {"unreadable", "undecodable", "empty", "odd", "playable"}

NoFiles == [f \in {} |-> "playable"]

V1Files ==
    {NoFiles, ("v1.webm" :> "playable"),
     ("v1.mkv" :> "unreadable") @@ ("v1.webm" :> "playable"),
     ("v1.mp4" :> "playable") @@ ("v1.webm" :> "unreadable")}
    \cup {("v1.mp4" :> k) : k \in SourceKinds}

V2Files == {NoFiles, ("v2.mp4" :> "playable"), ("v2.mkv" :> "empty")}

VideoDirs == {a @@ b : a \in V1Files, b \in V2Files}

\* for ext in [".mp4", ".mkv", ".webm"]: the first path that exists, or None.
Extensions == <<".mp4", ".mkv", ".webm">>
NoPath == ""

\* find_video_file returning the last path that exists instead of the first.
FindLastExtension(video_id, dir) ==
    LET hits == {k \in DOMAIN Extensions : (video_id \o Extensions[k]) \in DOMAIN dir}
    IN IF hits = {} THEN NoPath ELSE video_id \o Extensions[SetMax(hits)]

find_video_file(video_id, dir) ==
    LET hits == {k \in DOMAIN Extensions : (video_id \o Extensions[k]) \in DOMAIN dir}
    IN IF hits = {} THEN NoPath ELSE video_id \o Extensions[SetMin(hits)]

\* What ffprobe does on a file with the given content: a finished file with
\* frames prints its frame count, a finished file without prints 0, and
\* anything else is an error exit with nothing printed.  With "hung_ffprobe"
\* the process starts and never exits.
Ffprobe(content, t) ==
    [started |-> t # "no_ffprobe",
     exits |-> t # "hung_ffprobe",
     returncode |-> IF content \in {"good", "bad"} THEN 0 ELSE 1,
     stdout |-> IF content = "good" THEN <<"1", "0", "\n">>
                ELSE IF content = "bad" THEN <<"0", "\n">>
                ELSE <<>>]

TaskIds == DOMAIN tasks
OutputPath(i) == OutputFilename(tasks[i])
SourceKind(i) == video_dir[video_path[i]]
Running == {j \in TaskIds : pc[j] \notin {"queued", "done"}}

PoolOff ==
    /\ run = 0
    /\ tools = "ok"
    /\ video_dir = NoFiles
    /\ out_dir = NoFiles
    /\ pc = <<>>
    /\ frames_written = <<>>
    /\ probed = <<>>
    /\ outcome = <<>>
    /\ first_outcomes = <<>>
    /\ video_path = <<>>
    /\ executions = <<>>
    /\ completed = <<>>
    /\ start_dir = NoFiles
    /\ yielded = 0
    /\ printed = <<>>
    /\ ended = FALSE

PoolInit ==
    /\ run = 1
    /\ \E in \in PoolInputs :
          /\ config = in.config
          /\ tasks = BuildTasks(in.rows, in.config)
    /\ tools \in {"ok", "no_ffprobe", "hung_ffprobe", "readonly"}
    /\ video_dir \in VideoDirs
    /\ out_dir \in [{OutputFilename(tasks[i]) : i \in DOMAIN tasks} ->
                      {"absent", "partial", "good"}]
    /\ pc = [i \in DOMAIN tasks |-> "queued"]
    /\ frames_written = [i \in DOMAIN tasks |-> 0]
    /\ probed = [i \in DOMAIN tasks |-> "none"]
    /\ outcome = [i \in DOMAIN tasks |-> "none"]
    /\ first_outcomes = [i \in DOMAIN tasks |-> "none"]
    /\ video_path = [i \in DOMAIN tasks |-> NoPath]
    /\ executions = [i \in DOMAIN tasks |-> 0]
    /\ completed = <<>>
    /\ start_dir = out_dir
    /\ yielded = 0
    /\ printed = <<>>
    /\ ended = FALSE

\* `return <outcome>` of task i.
Return(i, o) ==
    /\ outcome' = [outcome EXCEPT ![i] = o]
    /\ pc' = [pc EXCEPT ![i] = "done"]
    /\ completed' = Append(completed, i)

\* StartTask without `if not video_path: return`: av.open(None) raises.
StartTaskUnchecked(i) ==
    /\ run \in {1, 2}
    /\ pc[i] = "queued"
    /\ Cardinality(Running) < NUM_WORKERS
    /\ video_path' = [video_path EXCEPT ![i] = find_video_file(tasks[i][1], video_dir)]
    /\ executions' = [executions EXCEPT ![i] = @ + 1]
    /\ LET path == video_path'[i]
       IN IF path = NoPath \/ video_dir[path] = "unreadable"
          THEN Return(i, "Failed")
          ELSE /\ pc' = [pc EXCEPT ![i] = "opened"]
               /\ UNCHANGED <<outcome, completed>>
    /\ UNCHANGED <<run, tools, video_dir, out_dir, frames_written, probed,
                   first_outcomes, start_dir, aggVars>>
    /\ UNCHANGED <<config, clusterVars, mainVars, tasks, probeVars, windowVars,
                   trimVars, downloadVars>>

\* A worker takes task i: find_video_file, the early return when there is
\* no source, and av.open(video_path) with the seek.
StartTask(i) ==
    /\ run \in {1, 2}
    /\ pc[i] = "queued"
    /\ Cardinality(Running) < NUM_WORKERS
    /\ video_path' = [video_path EXCEPT ![i] = find_video_file(tasks[i][1], video_dir)]
    /\ executions' = [executions EXCEPT ![i] = @ + 1]
    /\ LET path == video_path'[i]
       IN IF path = NoPath THEN Return(i, "Missing")
          ELSE IF video_dir[path] = "unreadable" THEN Return(i, "Failed")
          ELSE /\ pc' = [pc EXCEPT ![i] = "opened"]
               /\ UNCHANGED <<outcome, completed>>
    /\ UNCHANGED <<run, tools, video_dir, out_dir, frames_written, probed,
                   first_outcomes, start_dir, aggVars>>
    /\ UNCHANGED <<config, clusterVars, mainVars, tasks, probeVars, windowVars,
                   trimVars, downloadVars>>

\* output_container = av.open(output_path, mode='w'): the file is created,
\* or emptied when it exists; add_stream and the stream settings.
CreateOutput(i) ==
    /\ pc[i] = "opened"
    /\ IF tools = "readonly"
       THEN Return(i, "Failed") /\ UNCHANGED out_dir
       ELSE /\ out_dir' = [out_dir EXCEPT ![OutputPath(i)] = "partial"]
            /\ pc' = [pc EXCEPT ![i] = "writing"]
            /\ UNCHANGED <<outcome, completed>>
    /\ UNCHANGED <<run, tools, video_dir, frames_written, probed, first_outcomes,
                   video_path, executions, start_dir, aggVars>>
    /\ UNCHANGED <<config, clusterVars, mainVars, tasks, probeVars, windowVars,
                   trimVars, downloadVars>>

\* The decode loop, the encoder flush and output_container.close().  A path
\* that was unlinked while the container was open stays absent.
Encode(i) ==
    /\ pc[i] = "writing"
    /\ IF SourceKind(i) = "undecodable"
       THEN Return(i, "Failed") /\ UNCHANGED <<out_dir, frames_written>>
       ELSE /\ frames_written' =
                  [frames_written EXCEPT ![i] = IF SourceKind(i) = "empty" THEN 0 ELSE 1]
            /\ out_dir' = [out_dir EXCEPT ![OutputPath(i)] =
                               IF @ = "absent" THEN "absent"
                               ELSE IF SourceKind(i) = "playable" THEN "good"
                               ELSE "bad"]
            /\ pc' = [pc EXCEPT ![i] = "closed"]
            /\ UNCHANGED <<outcome, completed>>
    /\ UNCHANGED <<run, tools, video_dir, probed, first_outcomes, video_path,
                   executions, start_dir, aggVars>>
    /\ UNCHANGED <<config, clusterVars, mainVars, tasks, probeVars, windowVars,
                   trimVars, downloadVars>>

\* Remove with the two lines left out.
RemoveNothing(dir, path) == dir

\* if os.path.exists(output_path): os.remove(output_path)
Remove(dir, path) == [dir EXCEPT ![path] = "absent"]

\* if frames_written > 0 and is_valid_video_ffprobe(output_path): ... else: ...
\* with the except clause for a probe that raises.
Verify(i) ==
    /\ pc[i] = "closed"
    /\ IF frames_written[i] > 0
       THEN LET p == is_valid_video_ffprobe(Ffprobe(out_dir[OutputPath(i)], tools))
            IN /\ p # "hung"
               /\ probed' = [probed EXCEPT ![i] = p]
               /\ IF p = "raised" THEN Return(i, "Failed") /\ UNCHANGED out_dir
                  ELSE IF p = "valid" THEN Return(i, "Extracted") /\ UNCHANGED out_dir
                  ELSE /\ out_dir' = Remove(out_dir, OutputPath(i))
                       /\ Return(i, "Corrupted")
       ELSE /\ out_dir' = Remove(out_dir, OutputPath(i))
            /\ Return(i, "Corrupted")
            /\ UNCHANGED probed
    /\ UNCHANGED <<run, tools, video_dir, frames_written, first_outcomes,
                   video_path, executions, start_dir, aggVars>>
    /\ UNCHANGED <<config, clusterVars, mainVars, tasks, probeVars, windowVars,
                   trimVars, downloadVars>>

\* The indices of the lines printed so far.
Reported == {printed[k][1] : k \in DOMAIN printed}

taskVars ==
    <<run, tools, video_dir, out_dir, pc, frames_written, probed, outcome,
      first_outcomes, video_path, executions, completed, start_dir>>

\* PrintResult taking whichever finished call has not been printed yet, as
\* concurrent.futures.as_completed would hand them over.
PrintAsCompleted ==
    /\ run \in {1, 2}
    /\ \E i \in TaskIds \ Reported :
          /\ pc[i] = "done"
          /\ printed' = Append(printed, <<i, outcome[i]>>)
    /\ yielded' = yielded + 1
    /\ UNCHANGED <<ended, taskVars>>
    /\ UNCHANGED <<config, clusterVars, mainVars, tasks, probeVars, windowVars,
                   trimVars, downloadVars>>

\* PrintResult printing nothing for a task without a source file.
PrintResultQuiet ==
    /\ run \in {1, 2}
    /\ yielded < Len(tasks)
    /\ pc[yielded + 1] = "done"
    /\ printed' = IF outcome[yielded + 1] = "Missing" THEN printed
                  ELSE Append(printed, <<yielded + 1, outcome[yielded + 1]>>)
    /\ yielded' = yielded + 1
    /\ UNCHANGED <<ended, taskVars>>
    /\ UNCHANGED <<config, clusterVars, mainVars, tasks, probeVars, windowVars,
                   trimVars, downloadVars>>

\* for result in tqdm(executor.map(extract_clip, tasks), ...): print(result)
\* The iterator of executor.map hands the results over in the order of
\* `tasks`, each once its call has returned.
PrintResult ==
    /\ run \in {1, 2}
    /\ yielded < Len(tasks)
    /\ pc[yielded + 1] = "done"
    /\ printed' = Append(printed, <<yielded + 1, outcome[yielded + 1]>>)
    /\ yielded' = yielded + 1
    /\ UNCHANGED <<ended, taskVars>>
    /\ UNCHANGED <<config, clusterVars, mainVars, tasks, probeVars, windowVars,
                   trimVars, downloadVars>>

\* The loop is over, the pool is shut down and the last line is printed.
EndRun ==
    /\ run \in {1, 2}
    /\ yielded = Len(tasks)
    /\ ~ended
    /\ ended' = TRUE
    /\ UNCHANGED <<yielded, printed, taskVars>>
    /\ UNCHANGED <<config, clusterVars, mainVars, tasks, probeVars, windowVars,
                   trimVars, downloadVars>>

\* The script is run again over the same annotations: same task list, the
\* source and output directories as the first run left them.
RunAgain ==
    /\ run = 1
    /\ ended
    /\ run' = 2
    /\ first_outcomes' = outcome
    /\ pc' = [i \in TaskIds |-> "queued"]
    /\ frames_written' = [i \in TaskIds |-> 0]
    /\ probed' = [i \in TaskIds |-> "none"]
    /\ outcome' = [i \in TaskIds |-> "none"]
    /\ video_path' = [i \in TaskIds |-> NoPath]
    /\ executions' = [i \in TaskIds |-> 0]
    /\ completed' = <<>>
    /\ start_dir' = out_dir
    /\ yielded' = 0
    /\ printed' = <<>>
    /\ ended' = FALSE
    /\ UNCHANGED <<tools, video_dir, out_dir>>
    /\ UNCHANGED <<config, clusterVars, mainVars, tasks, probeVars, windowVars,
                   trimVars, downloadVars>>

PoolNext ==
    \/ \E i \in TaskIds : StartTask(i)
    \/ \E i \in TaskIds : CreateOutput(i)
    \/ \E i \in TaskIds : Encode(i)
    \/ \E i \in TaskIds : Verify(i)
    \/ PrintResult
    \/ EndRun
    \/ RunAgain

(* --------------------- the sliding-window generator -------------------- *)
\* The loop test with `start` for `start + W`.
WindowStarts(s, w, d) == Sec(s) <= d

\* while start + W <= D
WindowFits(s, w, d) == Sec(s + w) <= d

\* The asset of the example: 900 s, scanned with window 15 and stride 15.
ExampleAsset ==
    [duration |-> Sec(ExampleSeconds), window_size |-> ExampleWindow,
     stride |-> ExampleWindow]

WindowInputs ==
    [duration : 0..Sec(MaxSeconds), window_size : 1..MaxWindow, stride : 1..MaxWindow]
        \cup {ExampleAsset}

WindowOff ==
    /\ wpc = "off"
    /\ asset_duration = 0
    /\ window_size = 1
    /\ stride = 1
    /\ win_start = 0
    /\ windows = <<>>

\* start = 0
WindowInit ==
    /\ wpc = "loop"
    /\ \E in \in WindowInputs :
          /\ asset_duration = in.duration
          /\ window_size = in.window_size
          /\ stride = in.stride
    /\ win_start = 0
    /\ windows = <<>>

\* One turn of the loop: emit (center = start + W // 2, duration = W);
\* start += S.
EmitWindow ==
    /\ wpc = "loop"
    /\ WindowFits(win_start, window_size, asset_duration)
    /\ windows' = Append(windows, <<win_start + window_size \div 2, window_size>>)
    /\ win_start' = win_start + stride
    /\ UNCHANGED <<wpc, asset_duration, window_size, stride>>
    /\ UNCHANGED <<config, clusterVars, mainVars, tasks, probeVars, poolVars, trimVars,
                   downloadVars>>

\* The loop test fails: the generator is done.
EndWindows ==
    /\ wpc = "loop"
    /\ ~WindowFits(win_start, window_size, asset_duration)
    /\ wpc' = "done"
    /\ UNCHANGED <<asset_duration, window_size, stride, win_start, windows>>
    /\ UNCHANGED <<config, clusterVars, mainVars, tasks, probeVars, poolVars, trimVars,
                   downloadVars>>

WindowNext == EmitWindow \/ EndWindows

(* ------------------------------ the trimmer ---------------------------- *)
\* A file name is <<stem, extension>>, as os.path.splitext splits it.
\* f.endswith(('.mp4', '.mkv', '.webm'))
IsVideoName(name) == name[2] \in {".mp4", ".mkv", ".webm"}

\* output_filename = os.path.splitext(file)[0] + ".mp4"
TrimmedName(name) == name[1] \o ".mp4"

\* What a file of VIDEO_DIR can be like:
\*   "long"    ffmpeg exits with 0 and the written file has frames
\*   "short"   shorter than TRIM_START: ffmpeg exits with 0, no frame written
\*   "broken"  ffmpeg exits with an error, leaving what it had written
RawKinds == {"long", "short", "broken"}

RawFile(stem, ext, kind) == [name |-> <<stem, ext>>, kind |-> kind]

\* The listings of VIDEO_DIR the trimmer is run on, in os.listdir order.
RawDirs ==
    {<<RawFile("a", ".mp4", k)>> : k \in RawKinds}
    \cup {<<RawFile("a", ".mp4", "long"), RawFile("a", ".mkv", k)>> : k \in RawKinds}
    \cup {<<RawFile("a", ".mkv", k), RawFile("notes", ".txt", "broken"),
            RawFile("b", ".webm", j)>> : k, j \in RawKinds}

\* [f for f in os.listdir(VIDEO_DIR) if f.endswith(('.mp4', '.mkv', '.webm'))]
RECURSIVE ListVideos(_)
ListVideos(dir) ==
    IF dir = <<>> THEN <<>>
    ELSE IF IsVideoName(dir[1].name)
         THEN <<dir[1].name>> \o ListVideos(Tail(dir))
         ELSE ListVideos(Tail(dir))

FileIds == DOMAIN video_files
TrimmedPath(f) == TrimmedName(video_files[f])
RawKind(f) ==
    raw_dir[CHOOSE k \in DOMAIN raw_dir : raw_dir[k].name = video_files[f]].kind
Trimming == {g \in FileIds : fpc[g] \notin {"queued", "done"}}

TrimOff ==
    /\ tstate = "off"
    /\ trim_tools = "ok"
    /\ raw_dir = <<>>
    /\ video_files = <<>>
    /\ trimmed_dir = NoFiles
    /\ fpc = <<>>
    /\ trim_result = <<>>
    /\ ffmpeg_runs = <<>>
    /\ tyielded = 0
    /\ tprinted = <<>>

TrimInit ==
    /\ tstate = "running"
    /\ trim_tools \in {"ok", "no_ffprobe", "hung_ffprobe", "no_ffmpeg"}
    /\ raw_dir \in RawDirs
    /\ video_files = ListVideos(raw_dir)
    /\ trimmed_dir \in [{TrimmedName(video_files[f]) : f \in DOMAIN video_files} ->
                          {"absent", "partial", "good"}]
    /\ fpc = [f \in DOMAIN video_files |-> "queued"]
    /\ trim_result = [f \in DOMAIN video_files |-> "none"]
    /\ ffmpeg_runs = [f \in DOMAIN video_files |-> 0]
    /\ tyielded = 0
    /\ tprinted = <<>>

\* The call of trim_video for file f ends with r: a returned string, or
\* "raised" for an exception that leaves the function.
TrimReturn(f, r) ==
    /\ trim_result' = [trim_result EXCEPT ![f] = r]
    /\ fpc' = [fpc EXCEPT ![f] = "done"]

\* A worker takes file f: lines 38-42, the gate.  The probe is called when
\* the output exists, outside any try.
TrimGate(f) ==
    /\ tstate # "off"
    /\ fpc[f] = "queued"
    /\ Cardinality(Trimming) < NUM_WORKERS
    /\ LET p == is_valid_video_ffprobe(Ffprobe(trimmed_dir[TrimmedPath(f)], trim_tools))
       IN IF trimmed_dir[TrimmedPath(f)] = "absent"
          THEN fpc' = [fpc EXCEPT ![f] = "gated"] /\ UNCHANGED trim_result
          ELSE /\ p # "hung"
               /\ IF p = "raised" THEN TrimReturn(f, "raised")
                  ELSE IF p = "valid" THEN TrimReturn(f, "Skipped")
                  ELSE fpc' = [fpc EXCEPT ![f] = "gated"] /\ UNCHANGED trim_result
    /\ UNCHANGED <<tstate, trim_tools, raw_dir, video_files, trimmed_dir, ffmpeg_runs,
                   tyielded, tprinted>>
    /\ UNCHANGED <<config, clusterVars, mainVars, tasks, probeVars, poolVars, windowVars,
                   downloadVars>>
\* subprocess.run(cmd, check=True) starts ffmpeg, which with -y creates the
\* output or empties the one that exists; when ffmpeg cannot be started the
\* except clause removes the output and returns.
RunFfmpeg(f) ==
    /\ fpc[f] = "gated"
    /\ ffmpeg_runs' = [ffmpeg_runs EXCEPT ![f] = @ + 1]
    /\ IF trim_tools = "no_ffmpeg"
       THEN /\ trimmed_dir' = Remove(trimmed_dir, TrimmedPath(f))
            /\ TrimReturn(f, "Error")
       ELSE /\ trimmed_dir' = [trimmed_dir EXCEPT ![TrimmedPath(f)] = "partial"]
            /\ fpc' = [fpc EXCEPT ![f] = "running"]
            /\ UNCHANGED trim_result
    /\ UNCHANGED <<tstate, trim_tools, raw_dir, video_files, tyielded, tprinted>>
    /\ UNCHANGED <<config, clusterVars, mainVars, tasks, probeVars, poolVars, windowVars,
                   downloadVars>>
\* ffmpeg exits.  With an error exit check=True raises and the except clause
\* removes the output.  A path unlinked while ffmpeg wrote stays absent.
FfmpegExit(f) ==
    /\ fpc[f] = "running"
    /\ IF RawKind(f) = "broken"
       THEN /\ trimmed_dir' = Remove(trimmed_dir, TrimmedPath(f))
            /\ TrimReturn(f, "Error")
       ELSE /\ trimmed_dir' = [trimmed_dir EXCEPT ![TrimmedPath(f)] =
                                   IF @ = "absent" THEN "absent"
                                   ELSE IF RawKind(f) = "long" THEN "good"
                                   ELSE "bad"]
            /\ fpc' = [fpc EXCEPT ![f] = "written"]
            /\ UNCHANGED trim_result
    /\ UNCHANGED <<tstate, trim_tools, raw_dir, video_files, ffmpeg_runs, tyielded,
                   tprinted>>
    /\ UNCHANGED <<config, clusterVars, mainVars, tasks, probeVars, poolVars, windowVars,
                   downloadVars>>
\* Lines 61-70: the probe of the written file, inside the try.  The removal
\* of an invalid output is commented out at lines 64-65.
TrimVerify(f) ==
    /\ fpc[f] = "written"
    /\ LET p == is_valid_video_ffprobe(Ffprobe(trimmed_dir[TrimmedPath(f)], trim_tools))
       IN /\ p # "hung"
          /\ IF p = "raised"
             THEN /\ trimmed_dir' = Remove(trimmed_dir, TrimmedPath(f))
                  /\ TrimReturn(f, "Error")
             ELSE IF p = "valid" THEN TrimReturn(f, "Trimmed") /\ UNCHANGED trimmed_dir
             ELSE TrimReturn(f, "Corrupted") /\ UNCHANGED trimmed_dir
    /\ UNCHANGED <<tstate, trim_tools, raw_dir, video_files, ffmpeg_runs, tyielded,
                   tprinted>>
    /\ UNCHANGED <<config, clusterVars, mainVars, tasks, probeVars, poolVars, windowVars,
                   downloadVars>>
\* for result in tqdm(executor.map(trim_video, video_files), ...): the
\* iterator hands over the next result in the order of video_files, or
\* raises the exception the call ended with, which ends the script.
TrimPrint ==
    /\ tstate = "running"
    /\ tyielded < Len(video_files)
    /\ fpc[tyielded + 1] = "done"
    /\ IF trim_result[tyielded + 1] = "raised"
       THEN tstate' = "aborted" /\ UNCHANGED <<tyielded, tprinted>>
       ELSE /\ tprinted' = Append(tprinted, <<tyielded + 1, trim_result[tyielded + 1]>>)
            /\ tyielded' = tyielded + 1
            /\ UNCHANGED tstate
    /\ UNCHANGED <<trim_tools, raw_dir, video_files, trimmed_dir, fpc, trim_result,
                   ffmpeg_runs>>
    /\ UNCHANGED <<config, clusterVars, mainVars, tasks, probeVars, poolVars, windowVars,
                   downloadVars>>
\* print("All videos processed for trimming.")
TrimEnd ==
    /\ tstate = "running"
    /\ tyielded = Len(video_files)
    /\ tstate' = "ended"
    /\ UNCHANGED <<trim_tools, raw_dir, video_files, trimmed_dir, fpc, trim_result,
                   ffmpeg_runs, tyielded, tprinted>>
    /\ UNCHANGED <<config, clusterVars, mainVars, tasks, probeVars, poolVars, windowVars,
                   downloadVars>>
TrimNext ==
    \/ \E f \in FileIds : TrimGate(f)
    \/ \E f \in FileIds : RunFfmpeg(f)
    \/ \E f \in FileIds : FfmpegExit(f)
    \/ \E f \in FileIds : TrimVerify(f)
    \/ TrimPrint
    \/ TrimEnd

(* ----------------------------- the downloader -------------------------- *)
\* The size of a file that does not exist.
Absent == -1
Sizes == 0..MaxSize

DownloadOff ==
    /\ dpc = "off"
    /\ attempt = 1
    /\ disk_size = Absent
    /\ total_size = Absent
    /\ raised = 0
    /\ dl_result = "none"

\* download_file(file_name) is entered: attempt = 1.
DownloadInit ==
    /\ dpc = "trying"
    /\ attempt = 1
    /\ disk_size \in Sizes \cup {Absent}
    /\ total_size = Absent
    /\ raised = 0
    /\ dl_result = "none"

\* RetryAllowed with `<=` for `<`.
RetryAlways(a) == a <= max_retries

\* if attempt < max_retries
RetryAllowed(a) == a < max_retries

\* The except clause: sleep and go round again, or return Failed on the last
\* attempt.  When the for loop runs out the function ends without a return
\* statement, returning None.
Except ==
    /\ raised' = raised + 1
    /\ IF RetryAllowed(attempt)
       THEN /\ attempt' = attempt + 1
            /\ IF attempt + 1 > max_retries
               THEN dpc' = "done" /\ dl_result' = "None"
               ELSE UNCHANGED <<dpc, dl_result>>
       ELSE /\ dpc' = "done"
            /\ dl_result' = "Failed"
            /\ UNCHANGED attempt

\* An attempt in which requests.get, raise_for_status or int() of the
\* content-length header raises: nothing on disk is touched.
GetRaises ==
    /\ dpc = "trying"
    /\ Except
    /\ UNCHANGED <<disk_size, total_size>>
    /\ UNCHANGED <<config, clusterVars, mainVars, tasks, probeVars, poolVars, windowVars,
                   trimVars>>
\* An attempt whose response declares the size the file on disk has:
\* return Skipped (lines 42-43).
SkipComplete ==
    /\ dpc = "trying"
    /\ disk_size # Absent
    /\ total_size' = disk_size
    /\ dpc' = "done"
    /\ dl_result' = "Skipped"
    /\ UNCHANGED <<attempt, disk_size, raised>>
    /\ UNCHANGED <<config, clusterVars, mainVars, tasks, probeVars, poolVars, windowVars,
                   trimVars>>
\* An attempt whose response declares another size t: the file on disk is
\* removed (lines 46-47) and open(output_path, "wb") raises.
OpenRaises ==
    /\ dpc = "trying"
    /\ \E t \in Sizes \ {disk_size} : total_size' = t
    /\ disk_size' = Absent
    /\ Except
    /\ UNCHANGED <<config, clusterVars, mainVars, tasks, probeVars, poolVars, windowVars,
                   trimVars>>
\* An attempt that writes n bytes of a response declaring t: the stream
\* raises on the way, or it ends and the size check at lines 65-67 decides.
Fetch ==
    /\ dpc = "trying"
    /\ \E t \in Sizes \ {disk_size}, n \in Sizes, broke \in BOOLEAN :
          /\ total_size' = t
          /\ disk_size' = n
          /\ IF broke \/ n # t
             THEN Except
             ELSE /\ dpc' = "done"
                  /\ dl_result' = "Downloaded"
                  /\ UNCHANGED <<attempt, raised>>
    /\ UNCHANGED <<config, clusterVars, mainVars, tasks, probeVars, poolVars, windowVars,
                   trimVars>>
DownloadNext == GetRaises \/ SkipComplete \/ OpenRaises \/ Fetch

(* --------------------------- specifications ---------------------------- *)
\* The clustering function on its own.
InitCluster ==
    /\ ClusterInit /\ MainOff /\ tasks = <<>> /\ ProbeOff /\ PoolOff
    /\ WindowOff /\ TrimOff
    /\ DownloadOff
SpecCluster == InitCluster /\ [][ClusterNext]_vars

\* The MAIN section from the annotation rows to the task list.
InitMain ==
    /\ MainInit /\ ClusterOff /\ ProbeOff /\ PoolOff /\ WindowOff /\ TrimOff
    /\ DownloadOff
SpecMain == InitMain /\ [][MainNext]_vars

\* The validity prober on its own.
InitProbe ==
    /\ ProbeInit /\ config = ShippedConfig /\ ClusterOff /\ MainOff
    /\ tasks = <<>> /\ PoolOff /\ WindowOff /\ TrimOff
    /\ DownloadOff
SpecProbe == InitProbe /\ [][ProbeNext]_vars

\* The extraction pool, run twice.
Init ==
    /\ PoolInit /\ ClusterOff /\ MainOff /\ ProbeOff /\ WindowOff /\ TrimOff
    /\ DownloadOff
Next == PoolNext
Spec == Init /\ [][Next]_vars

\* The sliding-window generator on one asset.
InitWindow ==
    /\ WindowInit /\ config = ShippedConfig /\ ClusterOff /\ MainOff
    /\ tasks = <<>> /\ ProbeOff /\ PoolOff /\ TrimOff
    /\ DownloadOff
SpecWindow == InitWindow /\ [][WindowNext]_vars

\* The trimming pool of ava_trimmer.py.
InitTrim ==
    /\ TrimInit /\ config = ShippedConfig /\ ClusterOff /\ MainOff
    /\ tasks = <<>> /\ ProbeOff /\ PoolOff /\ WindowOff
    /\ DownloadOff
SpecTrim == InitTrim /\ [][TrimNext]_vars

\* One call of download_file.
InitDownload ==
    /\ DownloadInit /\ config = ShippedConfig /\ ClusterOff /\ MainOff
    /\ tasks = <<>> /\ ProbeOff /\ PoolOff /\ WindowOff /\ TrimOff
SpecDownload == InitDownload /\ [][DownloadNext]_vars

(* ------------------------------ claims --------------------------------- *)
\* C1: when the first run extracted every task, the second run over the same
\* task list returns Skipped for every task and does no extraction work (no
\* destination is opened for writing).
C1_SecondRunSkips ==
    (run = 2 /\ \A i \in TaskIds : first_outcomes[i] = "Extracted")
        => \A i \in TaskIds :
              /\ pc[i] \notin {"writing", "closed"}
              /\ pc[i] = "done" => outcome[i] = "Skipped"

\* C2: when extraction finished without raising and either no frame was
\* written or the probe of the written file said invalid, the task returns
\* Corrupted and its destination path holds no file when it returns.
C2_CorruptionCleanup ==
    [][\A i \in TaskIds :
          (/\ pc[i] = "closed"
           /\ pc'[i] = "done"
           /\ frames_written[i] = 0 \/ probed'[i] = "invalid")
              => /\ outcome'[i] = "Corrupted"
                 /\ out_dir'[OutputPath(i)] = "absent"]_vars

C2_Witness ==
    \E i \in TaskIds :
        /\ pc[i] = "done"
        /\ frames_written[i] > 0
        /\ probed[i] = "invalid"
        /\ outcome[i] = "Corrupted"
        /\ out_dir[OutputPath(i)] = "absent"

\* C3: when an exception is raised after the task opened its destination,
\* the task returns Failed and no file remains at the destination path.
C3_FailureCleanup ==
    [][\A i \in TaskIds :
          (/\ pc[i] \in {"writing", "closed"}
           /\ pc'[i] = "done"
           /\ outcome'[i] = "Failed")
              => out_dir'[OutputPath(i)] = "absent"]_vars

\* C4: a task whose video id has no file with any of the tried extensions
\* returns MissingAsset and changes neither directory.
NoSource(i) ==
    \A k \in DOMAIN Extensions : (tasks[i][1] \o Extensions[k]) \notin DOMAIN video_dir

C4_MissingAsset ==
    [][\A i \in TaskIds :
          (pc[i] = "queued" /\ pc'[i] # "queued" /\ NoSource(i))
              => /\ pc'[i] = "done"
                 /\ outcome'[i] = "Missing"
                 /\ out_dir' = out_dir
                 /\ video_dir' = video_dir]_vars

C4_Witness ==
    \E i \in TaskIds :
        /\ NoSource(i)
        /\ outcome[i] = "Missing"
        /\ out_dir[OutputPath(i)] = "good"

\* clamp(x, lo, hi)
Clamp(x, lo, hi) == IF x < lo THEN lo ELSE IF x > hi THEN hi ELSE x

Span(k) ==
    LET cluster == Clusters(timestamps, config.window)[k]
    IN SetMax(Range(cluster)) - SetMin(Range(cluster))

ClampLawHolds ==
    /\ Len(results) = Len(Clusters(timestamps, config.window))
    /\ \A k \in DOMAIN results :
          /\ config.min_duration <= results[k][2]
          /\ results[k][2] <= config.max_duration
          /\ results[k][2] = Clamp(Span(k) + config.buffer, config.min_duration,
                                   config.max_duration)

\* C5 as stated: for every timestamp list and every configuration, each
\* returned duration lies in [min_duration, max_duration] and equals
\* clamp(span + buffer, min_duration, max_duration).
C5_ClampAnyConfig == cpc # "input" => ClampLawHolds

\* C5 amended: the same, for every configuration with
\* min_duration <= max_duration.
C5_ClampLaw ==
    (cpc # "input" /\ config.min_duration <= config.max_duration) => ClampLawHolds

C5_Witness ==
    /\ cpc = "returned"
    /\ config.min_duration < config.max_duration
    /\ \E k \in DOMAIN results :
          /\ Span(k) + config.buffer > config.max_duration
          /\ results[k][2] = config.max_duration
    /\ \E k \in DOMAIN results : results[k][2] = config.min_duration

\* C6: no two distinct tasks of the deduplicated task list have the same
\* output file path.
C6_NoPathCollision ==
    tpc = "done"
        => \A i, j \in DOMAIN tasks :
              i # j => OutputFilename(tasks[i]) # OutputFilename(tasks[j])

\* The sequence s with every later repeat of an element removed.
FirstIndices(s) == {i \in DOMAIN s : \A j \in 1..(i - 1) : s[j] # s[i]}

KeepFirst(s) == [k \in 1..Cardinality(FirstIndices(s)) |-> s[SortedSeq(FirstIndices(s))[k]]]

\* C7: the task list has no two entries with the same key, holds every key
\* the clustering produced, and is the produced sequence with every later
\* repeat of a key removed.
C7_Dedup ==
    tpc \in {"cluster", "done"}
        => /\ \A i, j \in DOMAIN tasks : i # j => tasks[i] # tasks[j]
           /\ Range(tasks) = Range(emitted)
           /\ tasks = KeepFirst(emitted)
           /\ seen = Range(tasks)

C7_Witness ==
    /\ tpc = "done"
    /\ Len(emitted) > Len(tasks)
    /\ Len(tasks) >= 2

\* C8: the timestamps [10.0, 12.0, 13.0] with window 5, min_duration 7,
\* max_duration 15 and buffer 1.0 give exactly one pair, center 12 and
\* duration 7.
ExampleCall ==
    /\ timestamps = <<Sec(10), Sec(12), Sec(13)>>
    /\ config = [window |-> Sec(5), min_duration |-> Sec(7),
                 max_duration |-> Sec(15), buffer |-> Sec(1)]

C8_Example == (cpc = "returned" /\ ExampleCall) => results = << <<12, Sec(7)>> >>

C8_Witness == cpc = "returned" /\ ExampleCall

\* C9: two calls with the same multiset of timestamps, in any order, and the
\* same configuration return the same list of pairs in the same order.
C9_Determinism == cpc = "again" => results2 = results

C9_Witness ==
    /\ cpc = "again"
    /\ reordered # timestamps
    /\ Len(results) >= 2
    /\ Cardinality(Range(timestamps)) < Len(timestamps)

\* C10: the prober returns valid exactly when the process exited
\* successfully and its output parses as an integer above 0, and returns
\* invalid, never raising, in every other case.
C10_ProberContract ==
    qpc = "returned"
        => /\ verdict \in {"valid", "invalid"}
           /\ verdict = "valid"
                 <=> /\ proc.started
                     /\ proc.returncode = 0
                     /\ IntParses(proc.stdout)
                     /\ IntOf(proc.stdout) > 0

\* The members of every cluster, in order, as one list.
RECURSIVE Flatten(_)
Flatten(cl) == IF cl = <<>> THEN <<>> ELSE cl[1] \o Flatten(Tail(cl))

Called == cpc \in {"returned", "again"}

\* C13: the grouping partitions the sorted distinct timestamps into
\* contiguous runs: neighbours inside a cluster differ by less than window,
\* the last member of a cluster and the first of the next differ by at least
\* window, every distinct timestamp is in exactly one cluster, and there is
\* one pair per cluster; [1.0, 2.0, 20.0] with window 5 gives {1.0, 2.0}
\* and {20.0}.
C13_Grouping ==
    Called =>
        LET flat == Flatten(clusters)
        IN /\ \A k \in DOMAIN clusters : clusters[k] # <<>>
           /\ Range(flat) = Range(timestamps)
           /\ \A i \in 1..(Len(flat) - 1) : flat[i] < flat[i + 1]
           /\ \A k \in DOMAIN clusters :
                 \A i \in 1..(Len(clusters[k]) - 1) :
                    clusters[k][i + 1] - clusters[k][i] < config.window
           /\ \A k \in 1..(Len(clusters) - 1) :
                 clusters[k + 1][1] - clusters[k][Len(clusters[k])]
                    >= config.window
           /\ Len(results) = Len(clusters)
           /\ (timestamps = <<Sec(1), Sec(2), Sec(20)>> /\ config.window = Sec(5))
                 => clusters = << <<Sec(1), Sec(2)>>, <<Sec(20)>> >>

C13_Witness ==
    /\ cpc = "returned"
    /\ timestamps = <<Sec(1), Sec(2), Sec(20)>>
    /\ config.window = Sec(5)
    /\ Len(results) = 2

\* C14: the branch for a repeated value (freq > 1) is never taken, whatever
\* the input, repeated timestamps included, and the center of every cluster
\* is the median of the cluster's distinct values truncated to an integer.
C14_MedianOnly ==
    Called =>
        \A k \in DOMAIN clusters :
            LET d == SortedSeq(Range(clusters[k]))
                n == Len(d)
                twice == IF n % 2 = 1 THEN 2 * d[(n + 1) \div 2]
                         ELSE d[n \div 2] + d[n \div 2 + 1]
            IN /\ branches[k] = "median"
               /\ results[k][1] = Trunc(twice, 2 * Q)

C14_Witness ==
    /\ cpc = "returned"
    /\ \E k \in DOMAIN clusters :
          /\ Len(clusters[k]) >= 2
          /\ \E x \in Range(clusters[k]) : Count(timestamps, x) > 1

\* C15: find_video_file returns the path with the first of the extensions
\* .mp4, .mkv, .webm for which a file exists in the source directory, and
\* None exactly when there is none; the call changes no file, and calls for
\* the same video id on the same directory return the same path.
C15_AssetResolution ==
    [][\A i \in TaskIds :
          (pc[i] = "queued" /\ pc'[i] # "queued") =>
              LET v == tasks[i][1]
                  order == <<".mp4", ".mkv", ".webm">>
                  found == {k \in DOMAIN order : (v \o order[k]) \in DOMAIN video_dir}
              IN /\ video_path'[i] = NoPath <=> found = {}
                 /\ found # {} =>
                       \E k \in found : /\ video_path'[i] = v \o order[k]
                                        /\ \A j \in found : k <= j
                 /\ video_dir' = video_dir
                 /\ out_dir' = out_dir
                 /\ \A j \in TaskIds :
                       (pc[j] # "queued" /\ tasks[j][1] = v)
                           => video_path'[i] = video_path[j]]_vars

C15_Witness ==
    /\ "v1.webm" \in DOMAIN video_dir
    /\ \E i \in TaskIds : pc[i] # "queued" /\ video_path[i] = "v1.mkv"
    /\ \E i \in TaskIds : pc[i] # "queued" /\ video_path[i] = NoPath

\* C16: a probe process that never exits does not stall the worker: the
\* probe call is given up after a bounded time, so a worker that has reached
\* the probe of its written file can always go on and return an outcome.
C16_BoundedProbe ==
    \A i \in TaskIds : pc[i] = "closed" => ENABLED Verify(i)

\* The lines printed for task i.
LinesOf(i) == {k \in DOMAIN printed : printed[k][1] = i}

\* C17: every task is executed once and never again, one outcome line is
\* printed for it, and at the end of the run there are as many printed
\* outcomes as tasks.
C17_OneOutcomePerTask ==
    /\ \A i \in TaskIds :
          /\ executions[i] <= 1
          /\ Cardinality(LinesOf(i)) <= 1
          /\ \A k \in LinesOf(i) :
                executions[i] = 1 /\ outcome[i] # "none" /\ printed[k][2] = outcome[i]
    /\ ended =>
          /\ Len(printed) = Len(tasks)
          /\ \A i \in TaskIds : executions[i] = 1 /\ Cardinality(LinesOf(i)) = 1

C17_Witness ==
    /\ ended
    /\ Len(tasks) >= 2
    /\ \E i, j \in TaskIds : outcome[i] = "Missing" /\ outcome[j] = "Extracted"

\* C18 as claimed: the outcomes are printed in the order in which the tasks
\* complete, not in the order of dispatch: the k-th line printed is that of
\* the k-th task to complete.
C18_CompletionOrder ==
    \A k \in DOMAIN printed : printed[k][1] = completed[k]

\* C18: the outcomes are printed in the order of dispatch, whatever the
\* order in which the tasks complete: the k-th line printed is that of the
\* k-th task of the list, and it is printed once that task has completed.
C18_DispatchOrder ==
    \A k \in DOMAIN printed :
        /\ printed[k][1] = k
        /\ pc[k] = "done"
        /\ printed[k][2] = outcome[k]

C18_Witness ==
    /\ ended
    /\ Len(printed) = 2
    /\ completed = <<2, 1>>

\* The starts 0, S, 2S, ... whose window lies inside the asset.
StartsInside ==
    {s \in 0..(asset_duration \div Q) :
        s % stride = 0 /\ Sec(s + window_size) <= asset_duration}

\* C11: a failing task (missing asset, corrupted output, an exception
\* raised anywhere inside the task function) stops no other task from being
\* executed and reported: no exception leaves a task function, the loop
\* over the results is never abandoned, and once every task has an outcome
\* the run goes on to its end-of-run line.
C11_FailureContainment ==
    /\ \A f \in FileIds : trim_result[f] # "raised"
    /\ tstate # "aborted"
    /\ (tstate = "running" /\ \A f \in FileIds : fpc[f] = "done")
          => ENABLED (TrimPrint \/ TrimEnd)

\* C12: the generator emits exactly the windows with start 0, S, 2S, ...
\* for which start + W <= D, in that order, each as (start + W // 2, W); no
\* window reaches past D; for D = 900, W = 15, S = 15 the centers are 7, 22,
\* 37, ..., 892, the last start being 885.
C12_SlidingWindows ==
    /\ \A k \in DOMAIN windows :
          /\ windows[k] = <<(k - 1) * stride + window_size \div 2, window_size>>
          /\ Sec((k - 1) * stride + window_size) <= asset_duration
    /\ wpc = "done" =>
          /\ Len(windows) = Cardinality(StartsInside)
          /\ \A s \in StartsInside : windows[s \div stride + 1][1] = s + window_size \div 2
          /\ (asset_duration = Sec(900) /\ window_size = 15 /\ stride = 15) =>
                /\ Len(windows) = 60
                /\ windows[1][1] = 7 /\ windows[2][1] = 22 /\ windows[3][1] = 37
                /\ windows[60][1] = 892
                /\ win_start - stride = 885

C12_Witness ==
    /\ wpc = "done"
    /\ asset_duration = Sec(900) /\ window_size = 15 /\ stride = 15
    /\ Len(windows) = 60

\* The destination of file f exists and the probe reports it valid.
GateValid(f) ==
    /\ trimmed_dir[TrimmedPath(f)] # "absent"
    /\ is_valid_video_ffprobe(Ffprobe(trimmed_dir[TrimmedPath(f)], trim_tools)) = "valid"

\* C20: when the destination exists and the probe reports it valid,
\* trim_video returns Skipped without running the trim subprocess and
\* without touching the destination; in every other case it runs the trim
\* subprocess exactly once, and it returns Trimmed only if the probe of the
\* freshly written destination reports valid.
C20_IdempotencyGate ==
    [][\A f \in FileIds :
          /\ (fpc[f] = "queued" /\ fpc'[f] # "queued") =>
                IF GateValid(f)
                THEN /\ fpc'[f] = "done"
                     /\ trim_result'[f] = "Skipped"
                     /\ ffmpeg_runs'[f] = 0
                     /\ trimmed_dir' = trimmed_dir
                ELSE fpc'[f] = "gated"
          /\ (fpc[f] = "gated" /\ fpc'[f] # "gated") => ffmpeg_runs'[f] = 1
          /\ (fpc[f] # "gated") => ffmpeg_runs'[f] = ffmpeg_runs[f]
          /\ (fpc[f] # "done" /\ fpc'[f] = "done" /\ trim_result'[f] = "Trimmed") =>
                /\ fpc[f] = "written"
                /\ GateValid(f)]_vars

\* What extract_clip returns for task i when it is the only task executed,
\* from the directories as they were when the run started; "none" when the
\* call does not return.
AloneOutcome(i) ==
    LET path == find_video_file(tasks[i][1], video_dir)
    IN IF path = NoPath THEN "Missing"
       ELSE IF video_dir[path] = "unreadable" \/ tools = "readonly" THEN "Failed"
       ELSE IF video_dir[path] = "undecodable" THEN "Failed"
       ELSE IF video_dir[path] = "empty" THEN "Corrupted"
       ELSE IF tools = "no_ffprobe" THEN "Failed"
       ELSE IF tools = "hung_ffprobe" THEN "none"
       ELSE IF video_dir[path] = "playable" THEN "Extracted"
       ELSE "Corrupted"

\* What is at the destination of task i after that call.
AloneFile(i) ==
    LET path == find_video_file(tasks[i][1], video_dir)
    IN IF path = NoPath \/ video_dir[path] = "unreadable" \/ tools = "readonly"
       THEN start_dir[OutputPath(i)]
       ELSE IF video_dir[path] = "undecodable" THEN "partial"
       ELSE IF video_dir[path] = "empty" THEN "absent"
       ELSE IF video_dir[path] = "playable" THEN "good"
       ELSE IF tools = "ok" THEN "absent"
       ELSE "bad"

SameAsAlone ==
    \A i \in TaskIds :
        /\ outcome[i] = AloneOutcome(i)
        /\ out_dir[OutputPath(i)] = AloneFile(i)

\* C19: whatever the interleaving, each task ends with the outcome and the
\* destination file it has when executed alone from the same initial
\* directories (as it must when no task touches a path another task of the
\* run writes).
C19_SchedulingIndependence == ended => SameAsAlone

\* C21: whenever trim_video returns an outcome other than Trimmed or
\* Skipped (Corrupted output after a failed probe of the written file, or
\* Error after the trim subprocess fails), no file is left at its
\* destination path.
C21_TrimCleanup ==
    [][\A f \in FileIds :
          (fpc[f] # "done" /\ fpc'[f] = "done"
             /\ trim_result'[f] \in {"Corrupted", "Error"})
              => trimmed_dir'[TrimmedPath(f)] = "absent"]_vars

\* C22: whatever files the directory scan selects, two trim_video calls
\* that are running at the same time never have the same destination path,
\* so they never write, probe or delete the same output file.
C22_DisjointDestinations ==
    \A f, g \in Trimming : f # g => TrimmedPath(f) # TrimmedPath(g)

\* C23: download_file makes at most max_retries (3) attempts, stops at the
\* first attempt that ends in Skipped or Downloaded, returns Failed exactly
\* when all max_retries attempts raised, always ends with one of these three
\* outcomes, and returns Downloaded only when the written file has the
\* declared content length.
C23_BoundedRetry ==
    /\ max_retries = 3
    /\ attempt \in 1..max_retries
    /\ dpc = "trying" =>
          /\ dl_result = "none"
          /\ raised = attempt - 1
          /\ ENABLED DownloadNext
    /\ dpc = "done" =>
          /\ dl_result \in {"Skipped", "Downloaded", "Failed"}
          /\ dl_result = "Failed" <=> raised = max_retries
          /\ dl_result # "Failed" => raised = attempt - 1
          /\ dl_result = "Downloaded" => disk_size = total_size /\ disk_size # Absent

C23_Witness ==
    /\ dpc = "done"
    /\ dl_result = "Downloaded"
    /\ attempt = max_retries
    /\ raised = max_retries - 1

=============================================================================
